---- MODULE Spec2Model ----
(***************************************************************************)
(* The interview session of App.tsx: the React state of the App component, *)
(* its event handlers and effects, and the asynchronous continuations of   *)
(* startInterview and fetchFeedback.  One step of the model is one commit  *)
(* of React state: a handler (or the resumption of an async function after *)
(* an await) runs to its next await and its state updates are applied as   *)
(* one batch; the effects whose dependencies changed run next, before any  *)
(* other event is handled.                                                 *)
(*                                                                         *)
(* Strings the program builds (transcripts, answers) are sequences of      *)
(* one-character strings; '' is << >>.  Question texts and the job         *)
(* description are only copied and tested for emptiness: plain strings.    *)
(* An optional field of a Question is a field the record has or lacks.     *)
(***************************************************************************)
EXTENDS Integers, Sequences, FiniteSets, TLC

VARIABLES
    interviewState,        \* useState<InterviewState>, App.tsx:77
    jobDescription,        \* App.tsx:78
    questions,             \* App.tsx:79
    currentQuestionIndex,  \* App.tsx:80 (0-based, as in the source)
    isListening,           \* App.tsx:82
    isSpeaking,            \* App.tsx:83
    interimTranscript,     \* App.tsx:84
    finalTranscript,       \* App.tsx:85
    recordingStartTime,    \* App.tsx:87 (NoTime for null)
    recognitionRef,        \* App.tsx:89: TRUE iff recognitionRef.current is set
    recognition,           \* the engine behind recognitionRef.current
    synthQueue,            \* utterances handed to speechSynthesis, oldest first
    synthSpeaking,         \* synthRef.current.speaking
    clock,                 \* Date.now(), in whole seconds
    generating,            \* pending generateQuestionsFromJD calls of startInterview
    pipelines,             \* fetchFeedback runs suspended at an await
    effect,                \* the effect that has to run after the last commit
    session,               \* number of resets so far
    intents,               \* number of user intents so far
    callLog                \* the getAnswerFeedback calls issued since the last reset

vars == <<interviewState, jobDescription, questions, currentQuestionIndex,
          isListening, isSpeaking, interimTranscript, finalTranscript,
          recordingStartTime, recognitionRef, recognition, synthQueue,
          synthSpeaking, clock, generating, pipelines, effect, session,
          intents, callLog>>

sessionVars == <<interviewState, jobDescription, questions, currentQuestionIndex>>
captureVars == <<isListening, interimTranscript, finalTranscript,
                 recordingStartTime, recognition>>
speechVars  == <<isSpeaking, synthQueue, synthSpeaking>>
asyncVars   == <<generating, pipelines, callLog>>

----------------------------------------------------------------------------
(* Bounds *)

MaxIntents == 9        \* user intents (clicks, edits) explored
MaxGenLen == 3         \* longest list the Analysis Client returns
MaxClock == 2          \* last value of the clock
MaxFinalLen == 4       \* longest final transcript accumulated
MaxSynthQueue == 2     \* utterances queued at once

----------------------------------------------------------------------------
(* Constants of the program *)

PRESET_QUESTIONS ==
    << "Tell me about yourself.",
       "What are your biggest strengths?",
       "What are your biggest weaknesses?",
       "Tell me about a time you faced a challenge at work and how you handled it.",
       "Where do you see yourself in five years?" >>

InterviewState == {"NOT_STARTED", "GETTING_JOB_DESC", "GENERATING_QUESTIONS",
                   "INTERVIEWING", "AWAITING_FEEDBACK", "REVIEWING"}

NoTime == -1           \* recordingStartTime = null

\* the sentence delimiter '. ' appended after the final text of an event
Delimiter == <<".", " ">>

----------------------------------------------------------------------------
(* Inputs *)

\* what the user can type into the job description box
JobDescriptions == {"", "jd"}

\* texts of generated questions; a response is a prefix of this list
GeneratedTexts == [i \in 1..MaxGenLen |-> IF i = 1 THEN "g0" ELSE IF i = 2 THEN "g1"
                                          ELSE IF i = 3 THEN "g2" ELSE "g3"]

\* the JSON arrays of strings the generation call can return
GeneratedLists == {SubSeq(GeneratedTexts, 1, n) : n \in 0..MaxGenLen}

\* one SpeechRecognitionResult: final text uses "a", interim text uses "i"
RecognitionResults ==
    { [isFinal |-> TRUE,  transcript |-> <<"a">>],
      [isFinal |-> TRUE,  transcript |-> << >>],
      [isFinal |-> FALSE, transcript |-> <<"i">>] }

\* event.results from event.resultIndex on: one or two results, at most one
\* of them interim
RecognitionEvents ==
    { <<r>> : r \in RecognitionResults } \cup
    { e \in { <<r, s>> : r \in RecognitionResults, s \in RecognitionResults } :
          e[1].isFinal \/ e[2].isFinal }

\* the Feedback object a successful analysis call returns
FeedbackValue == [overallFeedback |-> "tip"]

----------------------------------------------------------------------------
(* Helpers *)

\* { ...r, k: v }
Put(r, k, v) == (k :> v) @@ r

\* JavaScript truthiness of q.answer
HasAnswer(q) == "answer" \in DOMAIN q /\ q.answer # << >>

Range(s) == { s[i] : i \in DOMAIN s }

\* object identities held by a list of questions
Oids(qs) == { qs[i].oid : i \in DOMAIN qs }

\* identities of the question objects some suspended pipeline still holds
PipelineOids == UNION { Oids(p.updatedQuestions) : p \in pipelines }

\* k identities not in used, smallest first
RECURSIVE FreshOids(_, _)
FreshOids(used, k) ==
    IF k = 0 THEN << >>
    ELSE LET o == CHOOSE x \in 1..(Cardinality(used) + 1) :
                      x \notin used /\ \A y \in 1..(x - 1) : y \in used
         IN  <<o>> \o FreshOids(used \cup {o}, k - 1)

\* texts.map((q, i) => ({ id: i, text: q })): new objects
MakeQuestions(texts) ==
    LET oids == FreshOids(PipelineOids, Len(texts))
    IN  [i \in 1..Len(texts) |-> [id |-> i - 1, text |-> texts[i], oid |-> oids[i]]]

\* renderContent throws (currentQ is undefined) and React unmounts the tree
RenderThrows(state, qs, idx) == state = "INTERVIEWING" /\ idx >= Len(qs)

Mounted == ~RenderThrows(interviewState, questions, currentQuestionIndex)

\* a handler or callback can run: the tree is mounted and effects are flushed
Idle == Mounted /\ effect = "none"

\* EffectAfter with questions added to the dependencies of the feedback effect
EffectAfterQuestionsDep(state, qs, idx, speaking, listening, stateChanged, questionsSet, idxChanged) ==
    IF RenderThrows(state, qs, idx) THEN "none"
    ELSE IF /\ stateChanged \/ questionsSet \/ idxChanged
            /\ state = "INTERVIEWING" /\ Len(qs) > 0 /\ ~speaking /\ ~listening
         THEN "speak"
    ELSE IF (stateChanged \/ questionsSet) /\ state = "AWAITING_FEEDBACK" THEN "feedback"
    ELSE "none"

\* the effect to run after a commit, from the dependency lists at App.tsx:199, 223
EffectAfter(state, qs, idx, speaking, listening, stateChanged, questionsSet, idxChanged) ==
    IF RenderThrows(state, qs, idx) THEN "none"
    ELSE IF /\ stateChanged \/ questionsSet \/ idxChanged
            /\ state = "INTERVIEWING" /\ Len(qs) > 0 /\ ~speaking /\ ~listening
         THEN "speak"
    ELSE IF stateChanged /\ state = "AWAITING_FEEDBACK" THEN "feedback"
    ELSE "none"

\* room for the utterance a commit will make the speak effect queue
SynthRoom(e) == e = "speak" => Len(synthQueue) < MaxSynthQueue

----------------------------------------------------------------------------
Init ==
    /\ interviewState = "NOT_STARTED"
    /\ jobDescription = ""
    /\ questions = << >>
    /\ currentQuestionIndex = 0
    /\ isListening = FALSE
    /\ isSpeaking = FALSE
    /\ interimTranscript = << >>
    /\ finalTranscript = << >>
    /\ recordingStartTime = NoTime
    /\ recognitionRef \in BOOLEAN
    /\ recognition = "inactive"
    /\ synthQueue = << >>
    /\ synthSpeaking = FALSE
    /\ clock = 1
    /\ generating = {}
    /\ pipelines = {}
    /\ effect = "none"
    /\ session = 0
    /\ intents = 0
    /\ callLog = << >>

----------------------------------------------------------------------------
(* User intents: the handlers of App.tsx *)

\* onClick of "Start with Job Description"
beginWithJobDescription ==
    /\ interviewState' = "GETTING_JOB_DESC"
    /\ effect' = "none"
    /\ UNCHANGED <<jobDescription, questions, currentQuestionIndex, captureVars,
                   speechVars, asyncVars, recognitionRef, clock, session>>

\* onChange of the textarea
setJobDescription(text) ==
    /\ jobDescription' = text
    /\ UNCHANGED <<interviewState, questions, currentQuestionIndex, captureVars,
                   speechVars, asyncVars, recognitionRef, clock, session, effect>>

\* setQuestions(texts.map(...)); setCurrentQuestionIndex(0);
\* setInterviewState(INTERVIEWING)
InstallQuestions(texts) ==
    LET qs == MakeQuestions(texts)
        e  == EffectAfter("INTERVIEWING", qs, 0, isSpeaking, isListening,
                          interviewState # "INTERVIEWING", TRUE,
                          currentQuestionIndex # 0)
    IN  /\ SynthRoom(e)
        /\ questions' = qs
        /\ currentQuestionIndex' = 0
        /\ interviewState' = "INTERVIEWING"
        /\ effect' = e

\* Without a job description nothing is awaited: the handler runs to its end
\* and React commits INTERVIEWING.  With one, it suspends at the await.
startInterview ==
    /\ IF jobDescription # ""
       THEN /\ interviewState' = "GENERATING_QUESTIONS"
            /\ generating' = generating \cup {session}
            /\ effect' = "none"
            /\ UNCHANGED <<questions, currentQuestionIndex>>
       ELSE /\ InstallQuestions(PRESET_QUESTIONS)
            /\ UNCHANGED generating
    /\ UNCHANGED <<jobDescription, captureVars, speechVars, pipelines, callLog,
                   recognitionRef, clock, session>>

\* the awaited generateQuestionsFromJD call returns texts
GenerationResolves(g, texts) ==
    /\ g \in generating
    /\ generating' = generating \ {g}
    /\ InstallQuestions(texts)
    /\ UNCHANGED <<jobDescription, captureVars, speechVars, pipelines, callLog,
                   recognitionRef, clock, session>>

\* GenerationFails without the catch block: the rejection ends startInterview
GenerationFailsUncaught(g) ==
    /\ g \in generating
    /\ generating' = generating \ {g}
    /\ effect' = "none"
    /\ UNCHANGED <<sessionVars, captureVars, speechVars, pipelines, callLog,
                   recognitionRef, clock, session>>

\* the call rejects, or its result is not an array: the catch block
GenerationFails(g) ==
    /\ g \in generating
    /\ generating' = generating \ {g}
    /\ InstallQuestions(PRESET_QUESTIONS)
    /\ UNCHANGED <<jobDescription, captureVars, speechVars, pipelines, callLog,
                   recognitionRef, clock, session>>

DateNow == clock * 1000

startListening ==
    IF recognitionRef
    THEN /\ finalTranscript' = << >>
         /\ interimTranscript' = << >>
         /\ recordingStartTime' = DateNow
         /\ recognition' = "active"
         /\ isListening' = TRUE
         /\ UNCHANGED <<sessionVars, speechVars, asyncVars, recognitionRef, clock,
                        session, effect>>
    ELSE UNCHANGED <<sessionVars, captureVars, speechVars, asyncVars, recognitionRef,
                     clock, session, effect>>

\* RecordAnswer with <= for ===: the questions before the current one are
\* written again
RecordAnswerUpTo(qs, idx, answer, duration) ==
    [i \in DOMAIN qs |->
        IF i - 1 <= idx
        THEN Put(Put(Put(qs[i], "answer", answer), "audioDuration", duration),
                 "oid", FreshOids(Oids(qs) \cup PipelineOids, i)[i])
        ELSE qs[i]]

\* RecordAnswer with the index counted from 1: the answer goes to the question
\* after the current one
RecordAnswerNext(qs, idx, answer, duration) ==
    [i \in DOMAIN qs |->
        IF i = idx
        THEN Put(Put(Put(qs[i], "answer", answer), "audioDuration", duration),
                 "oid", FreshOids(Oids(qs) \cup PipelineOids, 1)[1])
        ELSE qs[i]]

\* RecordAnswer with the duration left out of the update
RecordAnswerWithoutDuration(qs, idx, answer, duration) ==
    [i \in DOMAIN qs |->
        IF i - 1 = idx
        THEN Put(Put(qs[i], "answer", answer),
                 "oid", FreshOids(Oids(qs) \cup PipelineOids, 1)[1])
        ELSE qs[i]]

\* prev.map((q, i) => i === currentQuestionIndex ? {...q, answer, audioDuration} : q)
RecordAnswer(qs, idx, answer, duration) ==
    [i \in DOMAIN qs |->
        IF i - 1 = idx
        THEN Put(Put(Put(qs[i], "answer", answer), "audioDuration", duration),
                 "oid", FreshOids(Oids(qs) \cup PipelineOids, 1)[1])
        ELSE qs[i]]

\* stopListening without the test of recognitionRef.current (the stop() call
\* made optional): the answer is recorded with no engine as well
stopListeningUnguarded ==
    LET duration == IF recordingStartTime # NoTime /\ recordingStartTime # 0
                    THEN (DateNow - recordingStartTime) \div 1000 ELSE 0
        qs    == RecordAnswer(questions, currentQuestionIndex, finalTranscript, duration)
        more  == currentQuestionIndex < Len(questions) - 1
        idx   == IF more THEN currentQuestionIndex + 1 ELSE currentQuestionIndex
        state == IF more THEN interviewState ELSE "AWAITING_FEEDBACK"
        e     == EffectAfter(state, qs, idx, isSpeaking, FALSE,
                             state # interviewState, TRUE, more)
    IN  /\ SynthRoom(e)
        /\ recognition' = IF recognition = "active" THEN "stopping" ELSE recognition
        /\ isListening' = FALSE
        /\ questions' = qs
        /\ currentQuestionIndex' = idx
        /\ interviewState' = state
        /\ effect' = e
        /\ UNCHANGED <<jobDescription, interimTranscript, finalTranscript,
                       recordingStartTime, speechVars, asyncVars, recognitionRef,
                       clock, session>>

\* stopListening without setIsListening(false)
stopListeningStaysOn ==
    IF recognitionRef
    THEN LET duration == IF recordingStartTime # NoTime /\ recordingStartTime # 0
                         THEN (DateNow - recordingStartTime) \div 1000 ELSE 0
             qs    == RecordAnswer(questions, currentQuestionIndex, finalTranscript, duration)
             more  == currentQuestionIndex < Len(questions) - 1
             idx   == IF more THEN currentQuestionIndex + 1 ELSE currentQuestionIndex
             state == IF more THEN interviewState ELSE "AWAITING_FEEDBACK"
             e     == EffectAfter(state, qs, idx, isSpeaking, isListening,
                                  state # interviewState, TRUE, more)
         IN  /\ SynthRoom(e)
             /\ recognition' = IF recognition = "active" THEN "stopping" ELSE recognition
             /\ isListening' = isListening
             /\ questions' = qs
             /\ currentQuestionIndex' = idx
             /\ interviewState' = state
             /\ effect' = e
             /\ UNCHANGED <<jobDescription, interimTranscript, finalTranscript,
                            recordingStartTime, speechVars, asyncVars, recognitionRef,
                            clock, session>>
    ELSE UNCHANGED <<sessionVars, captureVars, speechVars, asyncVars, recognitionRef,
                     clock, session, effect>>

\* stopListening with <= in the test for a next question: the last answer
\* advances the index as well
stopListeningOffByOne ==
    IF recognitionRef
    THEN LET duration == IF recordingStartTime # NoTime /\ recordingStartTime # 0
                         THEN (DateNow - recordingStartTime) \div 1000 ELSE 0
             qs    == RecordAnswer(questions, currentQuestionIndex, finalTranscript, duration)
             more  == currentQuestionIndex <= Len(questions) - 1
             idx   == IF more THEN currentQuestionIndex + 1 ELSE currentQuestionIndex
             state == IF more THEN interviewState ELSE "AWAITING_FEEDBACK"
             e     == EffectAfter(state, qs, idx, isSpeaking, FALSE,
                                  state # interviewState, TRUE, more)
         IN  /\ SynthRoom(e)
             /\ recognition' = IF recognition = "active" THEN "stopping" ELSE recognition
             /\ isListening' = FALSE
             /\ questions' = qs
             /\ currentQuestionIndex' = idx
             /\ interviewState' = state
             /\ effect' = e
             /\ UNCHANGED <<jobDescription, interimTranscript, finalTranscript,
                            recordingStartTime, speechVars, asyncVars, recognitionRef,
                            clock, session>>
    ELSE UNCHANGED <<sessionVars, captureVars, speechVars, asyncVars, recognitionRef,
                     clock, session, effect>>

stopListening ==
    IF recognitionRef
    THEN LET duration == IF recordingStartTime # NoTime /\ recordingStartTime # 0
                         THEN (DateNow - recordingStartTime) \div 1000 ELSE 0
             qs    == RecordAnswer(questions, currentQuestionIndex, finalTranscript, duration)
             more  == currentQuestionIndex < Len(questions) - 1
             idx   == IF more THEN currentQuestionIndex + 1 ELSE currentQuestionIndex
             state == IF more THEN interviewState ELSE "AWAITING_FEEDBACK"
             e     == EffectAfter(state, qs, idx, isSpeaking, FALSE,
                                  state # interviewState, TRUE, more)
         IN  /\ SynthRoom(e)
             /\ recognition' = IF recognition = "active" THEN "stopping" ELSE recognition
             /\ isListening' = FALSE
             /\ questions' = qs
             /\ currentQuestionIndex' = idx
             /\ interviewState' = state
             /\ effect' = e
             /\ UNCHANGED <<jobDescription, interimTranscript, finalTranscript,
                            recordingStartTime, speechVars, asyncVars, recognitionRef,
                            clock, session>>
    ELSE UNCHANGED <<sessionVars, captureVars, speechVars, asyncVars, recognitionRef,
                     clock, session, effect>>

\* ResetSession without setInterimTranscript('')
ResetSessionKeepsInterim(s) ==
    [s EXCEPT !.interviewState = "NOT_STARTED",
              !.jobDescription = "",
              !.questions = << >>,
              !.currentQuestionIndex = 0,
              !.finalTranscript = << >>]

\* the fields resetInterview assigns, as a function of the state
ResetSession(s) ==
    [s EXCEPT !.interviewState = "NOT_STARTED",
              !.jobDescription = "",
              !.questions = << >>,
              !.currentQuestionIndex = 0,
              !.finalTranscript = << >>,
              !.interimTranscript = << >>]

\* the React state of the component
AppState ==
    [interviewState |-> interviewState, jobDescription |-> jobDescription,
     questions |-> questions, currentQuestionIndex |-> currentQuestionIndex,
     isListening |-> isListening, isSpeaking |-> isSpeaking,
     interimTranscript |-> interimTranscript, finalTranscript |-> finalTranscript,
     recordingStartTime |-> recordingStartTime]

resetInterview ==
    LET s == ResetSession(AppState)
    IN  /\ session' = session + 1
        /\ interviewState' = s.interviewState
        /\ jobDescription' = s.jobDescription
        /\ questions' = s.questions
        /\ currentQuestionIndex' = s.currentQuestionIndex
        /\ finalTranscript' = s.finalTranscript
        /\ interimTranscript' = s.interimTranscript
        /\ isListening' = s.isListening
        /\ isSpeaking' = s.isSpeaking
        /\ recordingStartTime' = s.recordingStartTime
        /\ effect' = "none"
        /\ callLog' = << >>
        /\ UNCHANGED <<recognition, synthQueue, synthSpeaking, generating, pipelines,
                       recognitionRef, clock>>

----------------------------------------------------------------------------
(* Speech recognition *)

\* the concatenated transcripts of the results of an event that are final
\* (wantFinal) or interim (~wantFinal), in order
RECURSIVE Transcripts(_, _)
Transcripts(results, wantFinal) ==
    IF results = << >> THEN << >>
    ELSE (IF Head(results).isFinal = wantFinal THEN Head(results).transcript ELSE << >>)
         \o Transcripts(Tail(results), wantFinal)

\* onresult with the interim text appended to the final transcript as well
onresultKeepsInterim(results) ==
    LET interim == Transcripts(results, FALSE)
        final   == Transcripts(results, TRUE) \o Transcripts(results, FALSE)
    IN  /\ interimTranscript' = interim
        /\ finalTranscript' = IF final # << >>
                              THEN finalTranscript \o final \o Delimiter
                              ELSE finalTranscript
        /\ UNCHANGED <<sessionVars, isListening, recordingStartTime,
                       speechVars, asyncVars, recognitionRef, clock, session, effect>>

\* recognition.onresult
onresult(results) ==
    LET interim == Transcripts(results, FALSE)
        final   == Transcripts(results, TRUE)
    IN  /\ interimTranscript' = interim
        /\ finalTranscript' = IF final # << >>
                              THEN finalTranscript \o final \o Delimiter
                              ELSE finalTranscript
        /\ UNCHANGED <<sessionVars, isListening, recordingStartTime,
                       speechVars, asyncVars, recognitionRef, clock, session, effect>>

\* the engine delivers results while it is capturing and, after stop(), one
\* last result for the audio it has not yet processed
RecognitionResult(results) ==
    /\ Idle
    /\ recognitionRef
    /\ recognition \in {"active", "stopping"}
    /\ recognition' = IF recognition = "stopping" THEN "inactive" ELSE recognition
    /\ onresult(results)
    /\ UNCHANGED intents
    /\ Len(finalTranscript') <= MaxFinalLen

\* the engine ends the session (after stop(), or on its own)
RecognitionEnd ==
    /\ effect = "none"
    /\ recognition \in {"active", "stopping"}
    /\ recognition' = "inactive"
    /\ UNCHANGED <<sessionVars, isListening, interimTranscript, finalTranscript,
                   recordingStartTime, speechVars, asyncVars, recognitionRef, clock,
                   session, intents, effect>>

----------------------------------------------------------------------------
(* Speech synthesis *)

\* speak(text): cancel what is being spoken, queue the new utterance
speak(text) ==
    IF synthSpeaking
    THEN /\ synthQueue' = <<text>>
         /\ synthSpeaking' = FALSE
         /\ isSpeaking' = FALSE          \* onend of the cancelled utterance
    ELSE /\ synthQueue' = Append(synthQueue, text)
         /\ UNCHANGED <<synthSpeaking, isSpeaking>>

\* the effect at App.tsx:194
SpeakEffect ==
    /\ effect = "speak"
    /\ speak(questions[currentQuestionIndex + 1].text)
    /\ effect' = "none"
    /\ UNCHANGED <<sessionVars, captureVars, asyncVars, recognitionRef, clock, session,
                   intents>>

\* utterance.onstart
UtteranceStart ==
    /\ Idle
    /\ synthQueue # << >> /\ ~synthSpeaking
    /\ synthSpeaking' = TRUE
    /\ isSpeaking' = TRUE
    /\ UNCHANGED <<synthQueue, sessionVars, captureVars, asyncVars, recognitionRef,
                   clock, session, intents, effect>>

\* utterance.onend
UtteranceEnd ==
    /\ Idle
    /\ synthSpeaking
    /\ synthQueue' = Tail(synthQueue)
    /\ synthSpeaking' = FALSE
    /\ isSpeaking' = FALSE
    /\ UNCHANGED <<sessionVars, captureVars, asyncVars, recognitionRef, clock,
                   session, intents, effect>>

\* Time passes.  The program reads the clock at the start and at the stop of
\* a capture only, so only the time that passes during a capture is told apart.
Tick ==
    /\ effect = "none"
    /\ isListening
    /\ clock < MaxClock
    /\ clock' = clock + 1
    /\ UNCHANGED <<sessionVars, captureVars, speechVars, asyncVars, recognitionRef,
                   session, intents, effect>>

----------------------------------------------------------------------------
(* The feedback pipeline: fetchFeedback, App.tsx:203-219 *)

\* answer.split(' ').length: one piece more than there are spaces
SplitLength(s) == Cardinality({ i \in DOMAIN s : s[i] = " " }) + 1

\* Math.round(n / (d / 60)) for a count n and a duration of d > 0 whole seconds
RoundedRate(n, d) == (120 * n + d) \div (2 * d)

\* wordsPerMinute of getAnswerFeedback(question), part_000:90-92
wordsPerMinute(question) ==
    IF /\ "audioDuration" \in DOMAIN question /\ question.audioDuration # 0
       /\ HasAnswer(question)
    THEN RoundedRate(SplitLength(question.answer), question.audioDuration)
    ELSE 150

\* NextAnswered without the test of the answer: every question gets a call
NextAnsweredUnchecked(qs, from) == IF from < Len(qs) THEN from ELSE Len(qs)

\* NextAnswered that goes back to the item before from while it has no feedback
NextAnsweredRetry(qs, from) ==
    LET rest == { i \in from..(Len(qs) - 1) : HasAnswer(qs[i + 1]) }
    IN  IF from > 0 /\ HasAnswer(qs[from]) /\ "feedback" \notin DOMAIN qs[from]
        THEN from - 1
        ELSE IF rest = {} THEN Len(qs)
        ELSE CHOOSE i \in rest : \A j \in rest : i <= j

\* the loop of fetchFeedback from position from (0-based): the next i whose
\* answer is truthy, or the length of the list when the loop runs out
NextAnswered(qs, from) ==
    LET rest == { i \in from..(Len(qs) - 1) : HasAnswer(qs[i + 1]) }
    IN  IF rest = {} THEN Len(qs)
        ELSE CHOOSE i \in rest : \A j \in rest : i <= j

\* RunLoop without the final setInterviewState(REVIEWING)
RunLoopWithoutReview(s, updatedQuestions, from, others, log) ==
    LET rest == { i \in from..(Len(updatedQuestions) - 1) :
                    HasAnswer(updatedQuestions[i + 1]) }
        i    == IF rest = {} THEN Len(updatedQuestions)
                ELSE CHOOSE k \in rest : \A j \in rest : k <= j
    IN  /\ interviewState' = interviewState
        /\ IF i < Len(updatedQuestions)
           THEN /\ pipelines' = others \cup
                       { [session |-> s, updatedQuestions |-> updatedQuestions, i |-> i] }
                /\ callLog' = Append(log, [session |-> s, i |-> i, outcome |-> "pending"])
           ELSE /\ pipelines' = others
                /\ callLog' = log

\* run the loop of pipeline run s over updatedQuestions from position from,
\* until it awaits getAnswerFeedback or ends with setInterviewState(REVIEWING)
RunLoop(s, updatedQuestions, from, others, log) ==
    LET i == NextAnswered(updatedQuestions, from)
    IN  IF i < Len(updatedQuestions)
        THEN /\ pipelines' = others \cup
                    { [session |-> s, updatedQuestions |-> updatedQuestions,
                       i |-> i] }
             /\ callLog' = Append(log, [session |-> s, i |-> i, outcome |-> "pending"])
             /\ interviewState' = interviewState
        ELSE /\ pipelines' = others
             /\ callLog' = log
             /\ interviewState' = "REVIEWING"

\* record in the log the outcome of the call pipeline p awaits
Settle(log, p, outcome) ==
    [k \in DOMAIN log |->
        IF log[k].session = p.session /\ log[k].i = p.i /\ log[k].outcome = "pending"
        THEN [log[k] EXCEPT !.outcome = outcome] ELSE log[k]]

\* the effect at App.tsx:201: fetchFeedback starts on the questions of this render
FeedbackEffect ==
    /\ effect = "feedback"
    /\ RunLoop(session, questions, 0, pipelines, callLog)
    /\ effect' = "none"
    /\ UNCHANGED <<jobDescription, questions, currentQuestionIndex, captureVars,
                   speechVars, generating, recognitionRef, clock, session, intents>>

\* WithFeedback over questionsWithAnswers (questions.filter(q => q.answer))
\* instead of the whole list
WithFeedbackFiltered(qs, oid) ==
    LET answered == SelectSeq(qs, LAMBDA q : HasAnswer(q))
    IN  [k \in DOMAIN answered |->
            IF answered[k].oid = oid THEN Put(answered[k], "feedback", FeedbackValue)
            ELSE answered[k]]

\* updatedQuestions[i].feedback = feedback writes to the object, which every
\* list holding that object sees
WithFeedback(qs, oid) ==
    [k \in DOMAIN qs |-> IF qs[k].oid = oid THEN Put(qs[k], "feedback", FeedbackValue)
                         ELSE qs[k]]

\* the awaited getAnswerFeedback call of p returns
FeedbackResolves(p) ==
    LET oid    == p.updatedQuestions[p.i + 1].oid
        upd    == WithFeedback(p.updatedQuestions, oid)
        others == { [q EXCEPT !.updatedQuestions = WithFeedback(@, oid)] :
                    q \in pipelines \ {p} }
        log    == Settle(callLog, p, "resolved")
    IN  /\ RunLoop(p.session, upd, p.i + 1, others, log)
        /\ questions' = upd
        /\ effect' = EffectAfter(interviewState', upd, currentQuestionIndex,
                                 isSpeaking, isListening,
                                 interviewState' # interviewState, TRUE, FALSE)
        /\ SynthRoom(effect')
        /\ UNCHANGED <<jobDescription, currentQuestionIndex, captureVars, speechVars,
                       generating, recognitionRef, clock, session>>

\* FeedbackFails without the try/catch: the rejection ends fetchFeedback
FeedbackFailsUncaught(p) ==
    /\ pipelines' = pipelines \ {p}
    /\ callLog' = Settle(callLog, p, "failed")
    /\ UNCHANGED <<sessionVars, captureVars, speechVars, generating, recognitionRef,
                   clock, session, effect>>

\* the call rejects or returns unparsable text: the catch block logs it
FeedbackFails(p) ==
    LET log == Settle(callLog, p, "failed")
    IN  /\ RunLoop(p.session, p.updatedQuestions, p.i + 1, pipelines \ {p}, log)
        /\ effect' = EffectAfter(interviewState', questions, currentQuestionIndex,
                                 isSpeaking, isListening,
                                 interviewState' # interviewState, FALSE, FALSE)
        /\ SynthRoom(effect')
        /\ UNCHANGED <<jobDescription, questions, currentQuestionIndex, captureVars,
                       speechVars, generating, recognitionRef, clock, session>>

----------------------------------------------------------------------------
(* The controls renderContent offers in each view *)

\* one more user intent
Intent == intents < MaxIntents /\ intents' = intents + 1

ClickBeginWithJobDescription ==
    /\ Idle
    /\ Intent
    /\ interviewState = "NOT_STARTED"
    /\ beginWithJobDescription

TypeJobDescription ==
    /\ Idle
    /\ Intent
    /\ interviewState = "GETTING_JOB_DESC"
    /\ \E text \in JobDescriptions : text # jobDescription /\ setJobDescription(text)

ClickStartInterview ==
    /\ Idle
    /\ Intent
    /\ \/ interviewState = "NOT_STARTED"
       \/ interviewState = "GETTING_JOB_DESC" /\ jobDescription # ""
    /\ startInterview

ClickStartListening ==
    /\ Idle
    /\ Intent
    /\ interviewState = "INTERVIEWING"
    /\ ~isSpeaking /\ ~isListening
    /\ startListening

ClickStopListening ==
    /\ Idle
    /\ Intent
    /\ interviewState = "INTERVIEWING"
    /\ ~isSpeaking /\ isListening
    /\ stopListening

ClickReset ==
    /\ Idle
    /\ Intent
    /\ interviewState = "REVIEWING"
    /\ resetInterview

GenerationSettles ==
    /\ Idle
    /\ UNCHANGED intents
    /\ \E g \in generating :
          \/ \E texts \in GeneratedLists : GenerationResolves(g, texts)
          \/ GenerationFails(g)

FeedbackSettles ==
    /\ Idle
    /\ UNCHANGED intents
    /\ \E p \in pipelines : FeedbackResolves(p) \/ FeedbackFails(p)

\* the user resets whatever the view: the handler has no guard of its own
ResetAnytime ==
    /\ Idle
    /\ Intent
    /\ resetInterview

Next ==
    \/ ClickBeginWithJobDescription
    \/ TypeJobDescription
    \/ ClickStartInterview
    \/ ClickStartListening
    \/ ClickStopListening
    \/ ClickReset
    \/ GenerationSettles
    \/ FeedbackSettles
    \/ SpeakEffect
    \/ FeedbackEffect
    \/ \E results \in RecognitionEvents : RecognitionResult(results)
    \/ RecognitionEnd
    \/ UtteranceStart
    \/ UtteranceEnd
    \/ Tick

\* the application as rendered: reset is offered in the REVIEWING view only
Spec == Init /\ [][Next]_vars

\* the session with resetInterview invoked in any phase
NextReset == Next \/ ResetAnytime

SpecReset == Init /\ [][NextReset]_vars


\* the capture handlers called in the interview view while the speech engine
\* is unavailable, whatever the button shows
CallStartListening ==
    /\ Idle
    /\ Intent
    /\ interviewState = "INTERVIEWING"
    /\ ~recognitionRef
    /\ startListening

CallStopListening ==
    /\ Idle
    /\ Intent
    /\ interviewState = "INTERVIEWING"
    /\ ~recognitionRef
    /\ stopListening

NextUnavailable == Next \/ CallStartListening \/ CallStopListening

SpecUnavailable == Init /\ [][NextUnavailable]_vars

\* the application as rendered, with every pending effect run and every
\* analysis call of the feedback pipeline eventually resolved or failed
LiveSpec == Spec /\ WF_vars(FeedbackEffect) /\ WF_vars(FeedbackSettles)

----------------------------------------------------------------------------
(* Properties *)

HasFeedback(q) == "feedback" \in DOMAIN q

\* the outcomes logged for the call on question i (0-based)
Outcomes(i) == { callLog[k].outcome : k \in { n \in DOMAIN callLog : callLog[n].i = i } }

\* C1: whenever the phase is INTERVIEWING, 0 <= currentIndex < questions.length,
\* for every list startInterview can install.
C1_IndexInRange ==
    interviewState = "INTERVIEWING" =>
        0 <= currentQuestionIndex /\ currentQuestionIndex < Len(questions)

\* C2: every Question, in the state and in the lists a running pipeline holds,
\* has answer and audioDuration both absent or both present.
C2_AnswerWithDuration ==
    \A qs \in {questions} \cup { p.updatedQuestions : p \in pipelines } :
        \A i \in DOMAIN qs :
            ("answer" \in DOMAIN qs[i]) <=> ("audioDuration" \in DOMAIN qs[i])

C2_Witness ==
    /\ session = 1
    /\ pipelines # {}
    /\ \E i \in DOMAIN questions :
          /\ HasFeedback(questions[i])
          /\ "answer" \in DOMAIN questions[i]
          /\ "audioDuration" \in DOMAIN questions[i]

\* C3: the pipeline has not finished while the phase is AWAITING_FEEDBACK; once
\* it has, the phase is REVIEWING, every question with a non-empty answer had
\* its call made and settled, and feedback is present exactly on the questions
\* whose call resolved (absent where it failed or where no call was made).
C3_FeedbackDespiteFailures ==
    /\ interviewState = "AWAITING_FEEDBACK" => effect = "feedback" \/ pipelines # {}
    /\ interviewState = "REVIEWING" =>
          /\ pipelines = {}
          /\ \A i \in DOMAIN questions :
                /\ HasAnswer(questions[i]) => Outcomes(i - 1) \in {{"resolved"}, {"failed"}}
                /\ ~HasAnswer(questions[i]) => Outcomes(i - 1) = {}
                /\ HasFeedback(questions[i]) <=> Outcomes(i - 1) = {"resolved"}

C3_Witness ==
    /\ interviewState = "REVIEWING"
    /\ Len(questions) = 3
    /\ Outcomes(0) = {"resolved"} /\ HasFeedback(questions[1])
    /\ Outcomes(1) = {"failed"} /\ ~HasFeedback(questions[2])
    /\ Outcomes(2) = {"resolved"} /\ HasFeedback(questions[3])

\* C4: the analysis calls of the pipeline are issued in strictly ascending
\* question order, each only after the one before it has resolved or failed,
\* and at most one is in flight.
C4_SequentialCalls ==
    /\ \A k \in 1..(Len(callLog) - 1) :
          /\ callLog[k].i < callLog[k + 1].i
          /\ callLog[k].outcome # "pending"
    /\ Cardinality(pipelines) <= 1
    /\ \A p \in pipelines :
          /\ callLog # << >>
          /\ callLog[Len(callLog)] = [session |-> p.session, i |-> p.i, outcome |-> "pending"]

C4_Witness ==
    /\ Len(callLog) = 3
    /\ callLog[1].outcome = "failed"
    /\ callLog[2].outcome = "resolved"
    /\ callLog[3].outcome = "pending"
    /\ pipelines # {}

\* C5: when every analysis call eventually resolves or fails, the phase
\* AWAITING_FEEDBACK always leads to REVIEWING, whatever calls fail.
C5_AwaitingLeadsToReviewing ==
    (interviewState = "AWAITING_FEEDBACK") ~> (interviewState = "REVIEWING")

C5_Witness ==
    /\ interviewState = "REVIEWING"
    /\ Len(callLog) >= 2
    /\ \A k \in DOMAIN callLog : callLog[k].outcome = "failed"
    /\ \A i \in DOMAIN questions : ~HasFeedback(questions[i])

\* the fixed preset list as installed: ids 0..4 in preset order, nothing else set
IsPresetList(qs) ==
    /\ Len(qs) = 5
    /\ \A i \in 1..5 :
          /\ DOMAIN qs[i] = {"id", "text", "oid"}
          /\ qs[i].id = i - 1
          /\ qs[i].text = PRESET_QUESTIONS[i]

\* C6: when the question generation of a startInterview with a job description
\* fails, the step installs the 5 preset questions (ids 0..4, preset order),
\* sets currentIndex to 0 and the phase to INTERVIEWING.
C6_GenerationFallback ==
    [][(\E g \in generating : GenerationFails(g)) =>
          /\ interviewState' = "INTERVIEWING"
          /\ currentQuestionIndex' = 0
          /\ IsPresetList(questions')]_vars

C6_Witness ==
    /\ interviewState = "INTERVIEWING"
    /\ jobDescription # ""
    /\ currentQuestionIndex = 0
    /\ IsPresetList(questions)

\* C7: a reset, from whatever phase, leaves phase NOT_STARTED, no questions,
\* currentIndex 0, an empty job description and empty transcript buffers, and
\* a second reset applied to the result changes nothing.
C7_ResetIdempotent ==
    [][session' = session + 1 =>
          /\ interviewState' = "NOT_STARTED"
          /\ questions' = << >>
          /\ currentQuestionIndex' = 0
          /\ jobDescription' = ""
          /\ finalTranscript' = << >>
          /\ interimTranscript' = << >>
          /\ ResetSession(AppState') = AppState']_vars

C7_Witness ==
    /\ session = 1
    /\ interviewState = "NOT_STARTED"
    /\ questions = << >>
    /\ pipelines # {}

\* C8: after a reset, the resumption of a pipeline started before it writes
\* nothing: questions and the phase stay as they are.
C8_NoWritesAfterReset ==
    [][(\E p \in pipelines :
           p.session < session /\ (FeedbackResolves(p) \/ FeedbackFails(p))) =>
          UNCHANGED <<questions, interviewState>>]_vars

InterimText == {"i"}

\* the position (1-based) of the question the last stopListening answered,
\* while no result has arrived since
JustAnswered ==
    IF interviewState = "INTERVIEWING" THEN currentQuestionIndex ELSE Len(questions)

\* C9: no recorded answer (and no final transcript) holds interim text, and a
\* stop with no final fragment since the start records the answer ''.
C9_NoInterimInAnswer ==
    /\ Range(finalTranscript) \cap InterimText = {}
    /\ \A i \in DOMAIN questions :
          "answer" \in DOMAIN questions[i] =>
              Range(questions[i].answer) \cap InterimText = {}
    /\ (recognition = "stopping" /\ finalTranscript = << >> /\ JustAnswered \in DOMAIN questions) =>
          questions[JustAnswered].answer = << >>

C9_Witness ==
    /\ recognition = "stopping"
    /\ JustAnswered \in DOMAIN questions
    /\ interimTranscript = <<"i">>
    /\ finalTranscript = << >>
    /\ questions[JustAnswered].answer = << >>

PhaseEdges ==
    { <<"NOT_STARTED", "GETTING_JOB_DESC">>,
      <<"NOT_STARTED", "GENERATING_QUESTIONS">>,
      <<"GETTING_JOB_DESC", "GENERATING_QUESTIONS">>,
      <<"GENERATING_QUESTIONS", "INTERVIEWING">>,
      <<"INTERVIEWING", "AWAITING_FEEDBACK">>,
      <<"AWAITING_FEEDBACK", "REVIEWING">> }

\* C10: the phase changes only along the edges of the phase machine, or to
\* NOT_STARTED by a reset.
C10_PhaseEdges ==
    [][interviewState' # interviewState =>
          \/ <<interviewState, interviewState'>> \in PhaseEdges
          \/ interviewState' = "NOT_STARTED" /\ session' = session + 1]_vars

\* C11: capture and playback are never active together: in no reachable state
\* are isListening and isSpeaking both true.
C11_NoCaptureDuringPlayback == ~(isListening /\ isSpeaking)

\* the number of words of a text: its maximal runs of non-space characters
WordCount(s) ==
    Cardinality({ i \in DOMAIN s : s[i] # " " /\ (i = 1 \/ s[i - 1] = " ") })

\* C12: the pace passed with the question of every analysis call is
\* round(wordCount(answer) / (audioDuration / 60)) when audioDuration > 0 and
\* the answer is non-empty, and 150 when audioDuration is zero or absent.
C12_PaceOfAnswer ==
    \A p \in pipelines :
        LET q == p.updatedQuestions[p.i + 1]
        IN  wordsPerMinute(q) =
                IF "audioDuration" \in DOMAIN q /\ q.audioDuration > 0 /\ q.answer # << >>
                THEN RoundedRate(WordCount(q.answer), q.audioDuration)
                ELSE 150

\* C13: whenever the phase enters INTERVIEWING, questions holds exactly 5
\* records and the record at position i has id i (ids 0..4 in order).
C13_FiveQuestions ==
    [][(interviewState # "INTERVIEWING" /\ interviewState' = "INTERVIEWING") =>
          /\ Len(questions') = 5
          /\ \A i \in DOMAIN questions' : questions'[i].id = i - 1]_vars

\* C14: the pipeline makes no analysis call for a question whose answer is
\* absent or empty: the call it awaits and the calls it has logged are for
\* questions with a non-empty answer, and a question without one never has
\* feedback.
C14_NoCallWithoutAnswer ==
    /\ \A p \in pipelines : HasAnswer(p.updatedQuestions[p.i + 1])
    /\ \A k \in DOMAIN callLog :
          /\ callLog[k].i + 1 \in DOMAIN questions
          /\ HasAnswer(questions[callLog[k].i + 1])
    /\ \A i \in DOMAIN questions :
          ~HasAnswer(questions[i]) => ~HasFeedback(questions[i])

C14_Witness ==
    /\ interviewState = "REVIEWING"
    /\ Len(questions) = 3
    /\ questions[1].answer = << >> /\ ~HasFeedback(questions[1])
    /\ HasFeedback(questions[2])
    /\ questions[3].answer = << >> /\ ~HasFeedback(questions[3])
    /\ Len(callLog) = 1

\* the phases of a running session: after startInterview has installed the list
Started == {"INTERVIEWING", "AWAITING_FEEDBACK", "REVIEWING"}

\* C15: a stopListening during INTERVIEWING either adds 1 to currentIndex and
\* keeps the phase (the question is not the last) or leaves currentIndex and
\* moves the phase to AWAITING_FEEDBACK (it is the last); in a started session,
\* until the reset, currentIndex changes by such an increment only.
C15_IndexAdvance ==
    [][/\ (interviewState = "INTERVIEWING" /\ isListening /\ ~isListening') =>
             IF currentQuestionIndex < Len(questions) - 1
             THEN /\ currentQuestionIndex' = currentQuestionIndex + 1
                  /\ interviewState' = "INTERVIEWING"
             ELSE /\ currentQuestionIndex' = currentQuestionIndex
                  /\ interviewState' = "AWAITING_FEEDBACK"
       /\ (interviewState \in Started /\ session' = session) =>
             \/ currentQuestionIndex' = currentQuestionIndex
             \/ /\ currentQuestionIndex' = currentQuestionIndex + 1
                /\ isListening /\ ~isListening'
                /\ "answer" \in DOMAIN questions'[currentQuestionIndex + 1]]_vars

C15_Witness ==
    /\ interviewState = "AWAITING_FEEDBACK"
    /\ Len(questions) = 3
    /\ currentQuestionIndex = 2
    /\ \A i \in 1..3 : "answer" \in DOMAIN questions[i]

\* every non-empty final fragment of an event, in order, each followed by the
\* delimiter
RECURSIVE Delimited(_)
Delimited(results) ==
    IF results = << >> THEN << >>
    ELSE (IF Head(results).isFinal /\ Head(results).transcript # << >>
          THEN Head(results).transcript \o Delimiter ELSE << >>)
         \o Delimited(Tail(results))

\* C16: startListening empties the final transcript, every final fragment
\* delivered during the capture is appended to it followed by '. ', and
\* stopListening records that buffer as the answer of the question at
\* currentIndex with audioDuration = stop time - start time, leaving every
\* other question unchanged.
C16_AnswerIsDelimitedFinals ==
    [][/\ (~isListening /\ isListening') => finalTranscript' = << >>
       /\ \A results \in RecognitionEvents :
             (isListening /\ RecognitionResult(results)) =>
                 finalTranscript' = finalTranscript \o Delimited(results)
       /\ (isListening /\ ~isListening') =>
             /\ Len(questions') = Len(questions)
             /\ \A i \in DOMAIN questions :
                   IF i = currentQuestionIndex + 1
                   THEN /\ questions'[i].answer = finalTranscript
                        /\ questions'[i].audioDuration =
                               (DateNow - recordingStartTime) \div 1000
                   ELSE questions'[i] = questions[i]]_vars

\* C17: once a question has its answer and audioDuration, they do not change
\* until the reset, whatever stopListening, recognition event or pipeline
\* update follows.
C17_AnswerSetOnce ==
    [][session' = session =>
          \A i \in DOMAIN questions :
              "answer" \in DOMAIN questions[i] =>
                  /\ i \in DOMAIN questions'
                  /\ "answer" \in DOMAIN questions'[i]
                  /\ questions'[i].answer = questions[i].answer
                  /\ questions'[i].audioDuration = questions[i].audioDuration]_vars

C17_Witness ==
    /\ interviewState = "REVIEWING"
    /\ Len(questions) = 3
    /\ questions[1].answer = <<"a", ".", " ">> /\ questions[1].audioDuration = 1
    /\ questions[2].answer = << >> /\ questions[2].audioDuration = 0
    /\ HasFeedback(questions[1]) /\ HasFeedback(questions[3])

\* C18: until the reset, the analysis call is made at most once per question,
\* the pipeline is started only by an entry into AWAITING_FEEDBACK, and the
\* feedback of a question, once present, stays as it is.
C18_FeedbackOnce ==
    [][/\ \A k \in DOMAIN callLog' : \A n \in DOMAIN callLog' :
             callLog'[k].i = callLog'[n].i => k = n
       /\ effect' = "feedback" =>
             interviewState # "AWAITING_FEEDBACK" /\ interviewState' = "AWAITING_FEEDBACK"
       /\ session' = session =>
             \A i \in DOMAIN questions :
                 HasFeedback(questions[i]) =>
                     /\ i \in DOMAIN questions'
                     /\ HasFeedback(questions'[i])
                     /\ questions'[i].feedback = questions[i].feedback]_vars

C18_Witness ==
    /\ interviewState = "REVIEWING"
    /\ Len(questions) = 2
    /\ Len(callLog) = 2
    /\ callLog[1].outcome = "resolved" /\ HasFeedback(questions[1])
    /\ callLog[2].outcome = "failed" /\ ~HasFeedback(questions[2])

\* C19: when the speech engine is unavailable, a call of startListening or
\* stopListening (the only user actions of the interview view) leaves the
\* phase, questions, currentIndex, isListening, both transcript buffers and
\* the start timestamp unchanged.
C19_UnavailableNoOp ==
    [][(~recognitionRef /\ interviewState = "INTERVIEWING" /\ intents' # intents) =>
          UNCHANGED <<interviewState, questions, currentQuestionIndex, isListening,
                      interimTranscript, finalTranscript, recordingStartTime>>]_vars

C19_Witness ==
    /\ ~recognitionRef
    /\ interviewState = "INTERVIEWING"
    /\ intents = 4
    /\ jobDescription = ""
    /\ ~isListening
    /\ currentQuestionIndex = 0
    /\ recordingStartTime = NoTime
    /\ \A i \in DOMAIN questions : "answer" \notin DOMAIN questions[i]

\* C20: right after stopListening the interim transcript is empty, and
\* startListening leaves both the final and the interim transcript empty.
C20_InterimDiscarded ==
    [][/\ (isListening /\ ~isListening') => interimTranscript' = << >>
       /\ (~isListening /\ isListening') =>
             finalTranscript' = << >> /\ interimTranscript' = << >>]_vars

\* C21: once the list is installed and until the reset, questions keeps its
\* length, order, ids and texts; a step changes at most the answer,
\* audioDuration and feedback of a question.
C21_ListFrozen ==
    [][(interviewState \in Started /\ session' = session) =>
          /\ Len(questions') = Len(questions)
          /\ \A i \in DOMAIN questions :
                /\ questions'[i].id = questions[i].id
                /\ questions'[i].text = questions[i].text
                /\ DOMAIN questions'[i] \subseteq
                       DOMAIN questions[i] \cup {"answer", "audioDuration", "feedback"}]_vars

C21_Witness ==
    /\ interviewState = "REVIEWING"
    /\ Len(questions) = 3
    /\ \A i \in 1..3 : questions[i].id = i - 1 /\ questions[i].text = GeneratedTexts[i]
    /\ questions[1].answer = << >>
    /\ HasFeedback(questions[2])
    /\ HasFeedback(questions[3])

\* C22: while the phase is INTERVIEWING exactly the questions before
\* currentIndex have an answer; in AWAITING_FEEDBACK and REVIEWING every
\* question has one (possibly the empty string).
C22_AnsweredPrefix ==
    /\ interviewState = "INTERVIEWING" =>
          \A i \in DOMAIN questions :
              ("answer" \in DOMAIN questions[i]) <=> (i - 1 < currentQuestionIndex)
    /\ interviewState \in {"AWAITING_FEEDBACK", "REVIEWING"} =>
          \A i \in DOMAIN questions : "answer" \in DOMAIN questions[i]

C22_Witness ==
    /\ interviewState = "INTERVIEWING"
    /\ Len(questions) = 5
    /\ currentQuestionIndex = 2
    /\ questions[1].answer = << >>
    /\ questions[2].answer # << >>
    /\ "answer" \notin DOMAIN questions[3]

\* C23: a capture session is active during INTERVIEWING only: isListening
\* implies phase = INTERVIEWING in every reachable state.
C23_ListeningOnlyInterviewing == isListening => interviewState = "INTERVIEWING"

C23_Witness ==
    /\ session = 1
    /\ isListening
    /\ interviewState = "INTERVIEWING"
    /\ recognition = "active"

\* C24: when a question becomes current (the phase enters INTERVIEWING, or
\* currentIndex moves on) speak is requested with its text; speak is requested
\* with the text of the current question only, and never during a capture.
C24_CurrentQuestionSpoken ==
    [][/\ ( /\ interviewState' = "INTERVIEWING"
            /\ currentQuestionIndex' < Len(questions')
            /\ \/ interviewState # "INTERVIEWING"
               \/ currentQuestionIndex' # currentQuestionIndex ) => effect' = "speak"
       /\ effect = "speak" =>
             /\ interviewState = "INTERVIEWING" /\ ~isListening
             /\ synthQueue' # << >>
             /\ synthQueue'[Len(synthQueue')] = questions[currentQuestionIndex + 1].text
       /\ (synthQueue' # synthQueue /\ Len(synthQueue') >= Len(synthQueue)) =>
             effect = "speak"]_vars

====
